---- MODULE Spec2Model ----
(***************************************************************************)
(* Probabilistic finite-difference schemes (probfindiff / pnfindiff).      *)
(*                                                                         *)
(* A client builds a FiniteDifferenceScheme (central, forward, backward,   *)
(* from_grid), and then consumes it any number of times (differentiate,    *)
(* differentiate_along_axis, multivariate).  The scattered-data path       *)
(* (derivative_higher over _neighbours) is a separate entry point.         *)
(*                                                                         *)
(* Numbers: grids are integer multiples of dx, the default kernel is a     *)
(* polynomial with integer coefficients, so Gram matrices are integer      *)
(* matrices and the solution of the collocation system is rational.        *)
(* Fractions are records [num, den] in lowest terms with den > 0; a        *)
(* non-finite float (the outcome of a singular solve) is den = 0.          *)
(***************************************************************************)
EXTENDS Integers, Sequences, FiniteSets, TLC

VARIABLES op, args, ret, scheme, grid, gram

vars == <<op, args, ret, scheme, grid, gram>>

-----------------------------------------------------------------------------
(* Bounds of the model.                                                    *)

\* largest derivative order a client asks for
MaxOrderDerivative == 2
\* largest accuracy order a client asks for
MaxOrderMethod == 2
\* largest number of columns of a 2-d sample array
MaxCols == 2
\* largest input dimension handed to multivariate
MaxShapeInput == 2
\* largest neighbour count asked of the scattered-data path
MaxNum == 3

\* step sizes
DxValues == {1, 2}
\* derivative orders and accuracy orders a client asks for
OrderDerivativeValues == 0..MaxOrderDerivative
OrderMethodValues == (-1)..MaxOrderMethod
\* stencil sizes for which the exact solve stays inside TLC's 32-bit integers
StencilSizes == 0..3
\* grids handed to from_grid directly: non-uniform, unsorted, coincident points
Grids == {<<-1, 0, 1>>, <<0, 1>>, <<0, 1, 3>>, <<2, -1>>, <<1, 1>>, <<2>>, <<0, 0, 1>>}
\* samples of the function to differentiate
FxValues == {-1, 0, 2}
\* samples in a 2-d array
ArrValues == {0, 1}
\* point sets of the scattered-data path
PointSets == {<<0, 1>>, <<0, 2, 5>>, <<3>>, <<4, 0, 1>>}

-----------------------------------------------------------------------------
(* Exact arithmetic.                                                       *)

Abs(a) == IF a < 0 THEN -a ELSE a

RECURSIVE GCD(_, _)
GCD(a, b) == IF b = 0 THEN a ELSE GCD(b, a % b)

RECURSIVE Pow(_, _)
Pow(b, e) == IF e = 0 THEN 1 ELSE b * Pow(b, e - 1)

NonFinite == [num |-> 0, den |-> 0]

IsFinite(q) == q.den /= 0

Frac(n, d) ==
    IF d = 0 THEN NonFinite
    ELSE LET g == GCD(Abs(n), Abs(d))
             s == IF d < 0 THEN -1 ELSE 1
         IN  [num |-> s * (n \div g), den |-> s * (d \div g)]

FracInt(n) == [num |-> n, den |-> 1]

FracAdd(p, q) ==
    IF ~IsFinite(p) \/ ~IsFinite(q) THEN NonFinite
    ELSE Frac(p.num * q.den + q.num * p.den, p.den * q.den)

FracNeg(p) == IF IsFinite(p) THEN [num |-> -p.num, den |-> p.den] ELSE NonFinite

FracScale(p, c) == IF IsFinite(p) THEN Frac(p.num * c, p.den) ELSE NonFinite

\* the array f[1], ..., f[n], its entries computed once
RECURSIVE Array(_, _)
Array(f, n) == IF n <= 0 THEN <<>> ELSE Append(Array(f, n - 1), f[n])

\* jnp.arange(n): 0, 1, ..., n-1 (empty when n <= 0)
arange(n) == [i \in 1..n |-> i - 1]

\* jnp.arange(lo, hi, step=1): lo, lo+1, ..., hi-1 (empty when hi <= lo)
arange2(lo, hi) == [i \in 1..(hi - lo) |-> lo + i - 1]

-----------------------------------------------------------------------------
(* Kernels: a kernel of two scalar arguments is a bivariate polynomial,    *)
(* c[a][b] the coefficient of x^a * y^b, a, b \in 0..deg.                  *)

\* kernel_zoo.polynomial(x, y, p=p): sum_i p[i] * (x . y)^i
polynomial(p) ==
    [deg |-> Len(p) - 1,
     c   |-> [a \in 0..(Len(p) - 1) |->
                [b \in 0..(Len(p) - 1) |-> IF a = b THEN p[a + 1] ELSE 0]]]

\* jnp.ones((n,))
ones(n) == [i \in 1..n |-> 1]

_default_kernel_short(min_order) == polynomial(ones(min_order - 1))

\* _default_kernel(min_order=n): the polynomial kernel with p = ones(n)
_default_kernel(min_order) == polynomial(ones(min_order))

\* autodiff.derivative(k, argnums): the exact partial derivative of the
\* kernel with respect to argument argnums (0: x, 1: y)
autodiff_derivative(k, argnums) ==
    [deg |-> k.deg,
     c   |-> [a \in 0..k.deg |-> [b \in 0..k.deg |->
                IF argnums = 0
                THEN (IF a < k.deg THEN (a + 1) * k.c[a + 1][b] ELSE 0)
                ELSE (IF b < k.deg THEN (b + 1) * k.c[a][b + 1] ELSE 0)]]]

\* A linear operator built by reduce(compose, [derivative] * m) applies
\* derivative m times; it is represented by m >= 1.
RECURSIVE ApplyOperator(_, _, _)
ApplyOperator(L, k, argnums) ==
    IF L = 1 THEN autodiff_derivative(k, argnums)
    ELSE autodiff_derivative(ApplyOperator(L - 1, k, argnums), argnums)

\* kernel.differentiate(k=k, L=L): (k, Lk, LLk), Lk differentiated in the
\* first argument, LLk in both
kernel_differentiate(k, L) ==
    LET Lk == ApplyOperator(L, k, 0)
    IN  [k |-> k, Lk |-> Lk, LLk |-> ApplyOperator(L, Lk, 1)]

\* evaluation of a kernel at the scalars x, y
RECURSIVE EvalRow(_, _, _, _, _)
EvalRow(k, a, b, x, y) ==
    IF b > k.deg THEN 0
    ELSE k.c[a][b] * Pow(x, a) * Pow(y, b) + EvalRow(k, a, b + 1, x, y)

RECURSIVE EvalFrom(_, _, _, _)
EvalFrom(k, a, x, y) ==
    IF a > k.deg THEN 0 ELSE EvalRow(k, a, 0, x, y) + EvalFrom(k, a + 1, x, y)

Eval(k, x, y) == EvalFrom(k, 0, x, y)

\* Gram data for the query point x and the stencil xs
prepare_gram(ks, x, xs) ==
    LET n == Len(xs)
    IN  [K   |-> Array([i \in 1..n |->
                          Array([j \in 1..n |-> Eval(ks.k, xs[i], xs[j])], n)], n),
         LK  |-> Array([j \in 1..n |-> Eval(ks.Lk, x, xs[j])], n),
         LLK |-> Eval(ks.LLk, x, x)]

-----------------------------------------------------------------------------
(* The dense solve and the collocation solver.                             *)

\* M without its first row and its column j
Minor(M, j) ==
    LET n == Len(M) - 1
    IN  Array([r \in 1..n |->
                 Array([c \in 1..n |-> IF c < j THEN M[r + 1][c] ELSE M[r + 1][c + 1]], n)],
              n)

RECURSIVE Det(_)
RECURSIVE DetExpand(_, _)
DetExpand(M, j) ==
    IF j > Len(M) THEN 0
    ELSE (IF j % 2 = 1 THEN 1 ELSE -1) * M[1][j] * Det(Minor(M, j))
         + DetExpand(M, j + 1)
Det(M) == IF Len(M) = 0 THEN 1 ELSE DetExpand(M, 1)

\* A with its column j replaced by b
ReplaceCol(A, j, b) ==
    LET n == Len(A)
    IN  Array([r \in 1..n |->
                 Array([c \in 1..n |-> IF c = j THEN b[r] ELSE A[r][c]], n)], n)

\* jnp.linalg.solve(A, b): the solution of A w = b; a singular A yields
\* non-finite entries, not an error
solve(A, b) ==
    LET d == Det(A)
    IN  Array([j \in 1..Len(A) |-> Frac(Det(ReplaceCol(A, j, b)), d)], Len(A))

RECURSIVE DotFrom(_, _, _)
DotFrom(w, v, i) ==
    IF i > Len(w) THEN FracInt(0)
    ELSE FracAdd(FracScale(w[i], v[i]), DotFrom(w, v, i + 1))

\* weights @ v
Dot(w, v) == DotFrom(w, v, 1)

\* collocation.unsymmetric(K=K, LK=LK, LLK=LLK)
unsymmetric(K, LK, LLK) ==
    LET weights == solve(K, LK)
    IN  [weights |-> weights, unc_base |-> FracAdd(FracInt(LLK), FracNeg(Dot(weights, LK)))]

\* collocation.non_uniform_nd(x=x, xs=xs, ks=ks, noise_variance=nv): the Gram
\* data of the stencil, handed to the collocation solver.  The solver,
\* unsymmetric(K, LK, LLK), has no noise_variance parameter, so the noise
\* variance never reaches the system that is solved.
non_uniform_nd(x, xs, ks, noise_variance) ==
    LET g == prepare_gram(ks, x, xs)
    IN  [gram |-> g, sol |-> unsymmetric(g.K, g.LK, g.LLK)]

-----------------------------------------------------------------------------
(* Scheme assembly.                                                        *)

\* a noise variance m * 10^(-e)
Noise(m, e) == [m |-> m, e |-> e]

_DEFAULT_NOISE_VARIANCE == Noise(1, 14)

NoiseVariances == {_DEFAULT_NOISE_VARIANCE, Noise(0, 0), Noise(1, 0)}

\* the kernel argument: None, or a kernel function
KernelNone == [given |-> FALSE, k |-> polynomial(<<>>)]
KernelOf(k) == [given |-> TRUE, k |-> k]

\* kernels a client hands over: none, or the polynomial kernel 1 + x * y
Kernels == {KernelNone, KernelOf(polynomial(<<1, 1>>))}

FiniteDifferenceScheme(weights, covs_marginal, order_derivative) ==
    [weights |-> weights, covs_marginal |-> covs_marginal,
     order_derivative |-> order_derivative]

NoScheme == FiniteDifferenceScheme(<<>>, FracInt(0), 0)

NoGram == [K |-> <<>>, LK |-> <<>>, LLK |-> 0]

Raise(e) == [status |-> e]

\* from_grid(xs=xs, order_derivative=m, kernel=kernel, noise_variance=nv)
from_grid(xs, order_derivative, kernel, noise_variance) ==
    IF order_derivative <= 0
    THEN \* functools.reduce over the empty list [derivative] * m, no initial value
         Raise("TypeError")
    ELSE IF Len(xs) = 0
    THEN \* xs[0] of an array without entries
         Raise("IndexError")
    ELSE LET k  == IF kernel.given THEN kernel.k ELSE _default_kernel(Len(xs))
             L  == order_derivative
             ks == kernel_differentiate(k, L)
             r  == non_uniform_nd(0, xs, ks, noise_variance)
         IN  [status |-> "ok",
              scheme |-> FiniteDifferenceScheme(r.sol.weights, r.sol.unc_base,
                                                order_derivative),
              gram   |-> r.gram]

\* the (scheme, grid) pair the stencil functions return
WithGrid(r, g) ==
    IF r.status = "ok"
    THEN [status |-> "ok", scheme |-> r.scheme, gram |-> r.gram, grid |-> g]
    ELSE r

backward_offset(order_derivative, order_method) ==
    [i \in 1..(order_derivative + order_method) |-> -(i - 1)]

forward_offset(order_derivative, order_method) ==
    arange(order_derivative + order_method)

\* num_central = (2 * ((order_derivative + 1.0) / 2.0) // 2) - 1 + order_method:
\* 2 * ((m + 1) / 2) is m + 1, floor-divided by 2
num_central(order_derivative, order_method) ==
    ((order_derivative + 1) \div 2) - 1 + order_method

central_num_side(order_derivative, order_method) ==
    num_central(order_derivative, order_method) \div 2

central_offset(order_derivative, order_method) ==
    LET num_side == central_num_side(order_derivative, order_method)
    IN  arange2(-num_side, num_side + 1)

Scaled(offset, dx) == [i \in 1..Len(offset) |-> offset[i] * dx]

backward_misaligned(dx, order_derivative, order_method, kernel, noise_variance) ==
    LET g   == Scaled(backward_offset(order_derivative, order_method), dx)
        rev == [i \in 1..Len(g) |-> g[Len(g) + 1 - i]]
    IN  WithGrid(from_grid(rev, order_derivative, kernel, noise_variance), g)

backward(dx, order_derivative, order_method, kernel, noise_variance) ==
    LET g == Scaled(backward_offset(order_derivative, order_method), dx)
    IN  WithGrid(from_grid(g, order_derivative, kernel, noise_variance), g)

forward(dx, order_derivative, order_method, kernel, noise_variance) ==
    LET g == Scaled(forward_offset(order_derivative, order_method), dx)
    IN  WithGrid(from_grid(g, order_derivative, kernel, noise_variance), g)

central(dx, order_derivative, order_method, kernel, noise_variance) ==
    LET g == Scaled(central_offset(order_derivative, order_method), dx)
    IN  WithGrid(from_grid(g, order_derivative, kernel, noise_variance), g)

-----------------------------------------------------------------------------
(* The state machine.                                                      *)

BuildOps == {"central", "forward", "backward", "from_grid"}

Init ==
    /\ op = "init"
    /\ args = [none |-> TRUE]
    /\ ret = [status |-> "none"]
    /\ scheme = NoScheme
    /\ grid = <<>>
    /\ gram = NoGram

\* the caller binds a successful result: scheme, grid = central(...)
Bind(r) ==
    IF r.status = "ok"
    THEN scheme' = r.scheme /\ grid' = r.grid /\ gram' = r.gram
    ELSE UNCHANGED <<scheme, grid, gram>>

StencilArgs(dx, m, acc, kernel, nv) ==
    [dx |-> dx, order_derivative |-> m, order_method |-> acc, kernel |-> kernel,
     noise_variance |-> nv]

Central ==
    \E dx \in DxValues, m \in OrderDerivativeValues, acc \in OrderMethodValues,
       kernel \in Kernels, nv \in NoiseVariances :
        /\ Len(central_offset(m, acc)) \in StencilSizes
        /\ op = "init"
        /\ op' = "central"
        /\ args' = StencilArgs(dx, m, acc, kernel, nv)
        /\ ret' = central(dx, m, acc, kernel, nv)
        /\ Bind(ret')

Forward ==
    \E dx \in DxValues, m \in OrderDerivativeValues, acc \in OrderMethodValues,
       kernel \in Kernels, nv \in NoiseVariances :
        /\ Len(forward_offset(m, acc)) \in StencilSizes
        /\ op = "init"
        /\ op' = "forward"
        /\ args' = StencilArgs(dx, m, acc, kernel, nv)
        /\ ret' = forward(dx, m, acc, kernel, nv)
        /\ Bind(ret')

Backward ==
    \E dx \in DxValues, m \in OrderDerivativeValues, acc \in OrderMethodValues,
       kernel \in Kernels, nv \in NoiseVariances :
        /\ Len(backward_offset(m, acc)) \in StencilSizes
        /\ op = "init"
        /\ op' = "backward"
        /\ args' = StencilArgs(dx, m, acc, kernel, nv)
        /\ ret' = backward(dx, m, acc, kernel, nv)
        /\ Bind(ret')

FromGrid ==
    \E xs \in Grids, m \in OrderDerivativeValues, kernel \in Kernels,
       nv \in NoiseVariances :
        /\ op = "init"
        /\ op' = "from_grid"
        /\ args' = [xs |-> xs, order_derivative |-> m, kernel |-> kernel,
                    noise_variance |-> nv]
        /\ ret' = WithGrid(from_grid(xs, m, kernel, nv), xs)
        /\ Bind(ret')

-----------------------------------------------------------------------------
(* Scheme application.                                                     *)

\* jnp.einsum("...k,...k->...", weights, fx) for 1-d weights and fx
RECURSIVE einsum_upto(_, _, _)
einsum_upto(weights, fx, k) ==
    IF k = 0 THEN FracInt(0)
    ELSE FracAdd(einsum_upto(weights, fx, k - 1), FracScale(weights[k], fx[k]))

einsum(weights, fx) == einsum_upto(weights, fx, Len(weights))

differentiate_unc_of_samples(fx, s) ==
    [dfx      |-> einsum(s.weights, fx),
     unc_base |-> FracAdd(s.covs_marginal, einsum(s.weights, fx))]

\* differentiate(fx, scheme=scheme): (dfx, unc_base)
differentiate(fx, s) ==
    [dfx |-> einsum(s.weights, fx), unc_base |-> s.covs_marginal]

\* A 2-d array: its shape <<rows, cols>> and its entries in row-major order.
Array2(rows, cols, data) == [shape |-> <<rows, cols>>, data |-> data]

\* entry (i, j) of a 2-d array, 1-based
At(arr, i, j) == arr.data[(i - 1) * arr.shape[2] + j]

\* the j-th 1-d slice of arr along axis: a column for axis 0, a row for axis 1
slice_along(arr, axis, j) ==
    IF axis = 0
    THEN Array([i \in 1..arr.shape[1] |-> At(arr, i, j)], arr.shape[1])
    ELSE Array([i \in 1..arr.shape[2] |-> At(arr, j, i)], arr.shape[2])

\* the number of 1-d slices of arr along axis
num_slices(arr, axis) == IF axis = 0 THEN arr.shape[2] ELSE arr.shape[1]

differentiate_along_axis_shifted(fx, axis, s) ==
    LET m == num_slices(fx, axis)
    IN  [dfx      |-> Array([j \in 1..m |->
                        differentiate(slice_along(fx, axis, (j % m) + 1), s).dfx], m),
         unc_base |-> Array([j \in 1..m |-> s.covs_marginal], m)]

\* differentiate_along_axis(fx, axis=axis, scheme=scheme):
\* jnp.apply_along_axis maps differentiate over the slices along axis; an
\* output that does not depend on the slice is broadcast over the slices
differentiate_along_axis(fx, axis, s) ==
    LET m == num_slices(fx, axis)
    IN  [dfx      |-> Array([j \in 1..m |->
                        differentiate(slice_along(fx, axis, j), s).dfx], m),
         unc_base |-> Array([j \in 1..m |->
                        differentiate(slice_along(fx, axis, j), s).unc_base], m)]

\* stencil.multivariate(xs_1d=xs_1d, shape_input=(p,)): the 1-d stencil
\* along each of the p coordinate axes, zero along the others
stencil_multivariate(xs_1d, p) ==
    LET n == Len(xs_1d)
    IN  Array([i \in 1..p |->
                 Array([j \in 1..p |->
                          Array([k \in 1..n |-> IF i = j THEN xs_1d[k] ELSE 0], n)], p)], p)

multivariate_resolved(scheme_1d, xs_1d, p) ==
    [scheme |-> FiniteDifferenceScheme(scheme_1d.weights, scheme_1d.covs_marginal, p),
     xs     |-> stencil_multivariate(xs_1d, p)]

\* multivariate(scheme_1d, xs_1d, shape_input=(p,)): (scheme_1d, xs_full)
multivariate(scheme_1d, xs_1d, p) ==
    [scheme |-> scheme_1d, xs |-> stencil_multivariate(xs_1d, p)]

-----------------------------------------------------------------------------
(* Scattered data: nearest neighbours and their coefficients.              *)

\* the number of points that come before point j in the order of distance
\* to point i (equal distances in the order of the indices)
rank(xs, i, j) ==
    Cardinality({l \in 1..Len(xs) :
        \/ Abs(xs[l] - xs[i]) < Abs(xs[j] - xs[i])
        \/ Abs(xs[l] - xs[i]) = Abs(xs[j] - xs[i]) /\ l < j})

\* scipy.spatial.KDTree(data=xs).query(x=xs[i], k=num): the 0-based indices of
\* the num nearest points, nearest first; a missing neighbour is indicated
\* by the number of points n
kdtree_query(xs, i, num) ==
    LET n == Len(xs)
    IN  Array([k \in 1..num |->
                 IF k <= n THEN (CHOOSE j \in 1..n : rank(xs, i, j) = k - 1) - 1 ELSE n],
              num)

\* xs[indices] for one row of indices: numpy raises IndexError on an index
\* outside the array, jax clamps the index into the array
take(xs, row) ==
    Array([k \in 1..Len(row) |->
             xs[(IF row[k] > Len(xs) - 1 THEN Len(xs) - 1 ELSE row[k]) + 1]], Len(row))

\* _neighbours(num=num, xs=xs): (neighbours, indices); backend is the kind of
\* array xs is
_neighbours(num, xs, backend) ==
    LET n       == Len(xs)
        indices == Array([i \in 1..n |-> kdtree_query(xs, i, num)], n)
    IN  IF backend = "numpy" /\ \E i \in 1..n : \E k \in 1..num : indices[i][k] > n - 1
        THEN Raise("IndexError")
        ELSE [status     |-> "ok",
              neighbours |-> Array([i \in 1..n |-> take(xs, indices[i])], n),
              indices    |-> indices]

\* derivative_higher(xs=xs, deriv=deriv, num=num): (coeffs, indices).  The
\* coefficients belong to the exponentiated-quadratic kernel and are not
\* rational; the model keeps the stencils they are computed over.
derivative_higher(xs, deriv, num, backend) ==
    LET nb == _neighbours(num, xs, backend)
    IN  IF nb.status /= "ok" THEN nb
        ELSE IF deriv <= 0
        THEN \* functools.reduce over the empty list [derivative] * deriv
             Raise("TypeError")
        ELSE [status  |-> "ok",
              coeffs  |-> [x |-> xs, xs |-> nb.neighbours, deriv |-> deriv],
              indices |-> nb.indices]

\* derivative(xs=xs, num=num)
coefficients_derivative(xs, num, backend) == derivative_higher(xs, 1, num, backend)

Backends == {"numpy", "jax"}

HasScheme == op /= "init" /\ scheme /= NoScheme

Differentiate ==
    \E fx \in [1..Len(scheme.weights) -> FxValues] :
        /\ HasScheme
        /\ op' = "differentiate"
        /\ args' = [fx |-> fx]
        /\ ret' = [status |-> "ok", out |-> differentiate(fx, scheme)]
        /\ UNCHANGED <<scheme, grid, gram>>

DifferentiateAlongAxis ==
    \E m \in 1..MaxCols, axis \in {0, 1} :
        \E data \in [1..(Len(scheme.weights) * m) -> ArrValues] :
            LET n  == Len(scheme.weights)
                fx == IF axis = 0 THEN Array2(n, m, data) ELSE Array2(m, n, data)
            IN  /\ HasScheme
                /\ op \in BuildOps
                /\ op' = "differentiate_along_axis"
                /\ args' = [fx |-> fx, axis |-> axis]
                /\ ret' = [status |-> "ok", out |-> differentiate_along_axis(fx, axis, scheme)]
                /\ UNCHANGED <<scheme, grid, gram>>

Multivariate ==
    \E p \in 1..MaxShapeInput :
        /\ HasScheme
        /\ op \in BuildOps
        /\ op' = "multivariate"
        /\ args' = [scheme_1d |-> scheme, xs_1d |-> grid, shape_input |-> <<p>>]
        /\ ret' = [status |-> "ok", out |-> multivariate(scheme, grid, p)]
        /\ UNCHANGED <<scheme, grid, gram>>

Derivative ==
    \E xs \in PointSets, num \in 1..MaxNum, backend \in Backends :
        /\ op = "init"
        /\ op' = "derivative"
        /\ args' = [xs |-> xs, deriv |-> 1, num |-> num, backend |-> backend]
        /\ ret' = coefficients_derivative(xs, num, backend)
        /\ UNCHANGED <<scheme, grid, gram>>

DerivativeHigher ==
    \E xs \in PointSets, deriv \in OrderDerivativeValues, num \in 1..MaxNum,
       backend \in Backends :
        /\ op = "init"
        /\ op' = "derivative_higher"
        /\ args' = [xs |-> xs, deriv |-> deriv, num |-> num, backend |-> backend]
        /\ ret' = derivative_higher(xs, deriv, num, backend)
        /\ UNCHANGED <<scheme, grid, gram>>

Next ==
    \/ Central
    \/ Forward
    \/ Backward
    \/ FromGrid
    \/ Differentiate
    \/ DifferentiateAlongAxis
    \/ Multivariate
    \/ Derivative
    \/ DerivativeHigher

Spec == Init /\ [][Next]_vars

-----------------------------------------------------------------------------
(* Properties.                                                             *)

StencilOps == {"central", "forward", "backward"}

Built == op \in BuildOps /\ ret.status = "ok"

AllFinite(w) == \A i \in 1..Len(w) : IsFinite(w[i])

RECURSIVE DenProduct(_, _)
DenProduct(w, i) == IF i > Len(w) THEN 1 ELSE w[i].den * DenProduct(w, i + 1)

\* sum_i c[i] * w[i], times the common denominator D of the w[i]
RECURSIVE ScaledSum(_, _, _, _)
ScaledSum(c, w, D, i) ==
    IF i > Len(w) THEN 0
    ELSE c[i] * w[i].num * (D \div w[i].den) + ScaledSum(c, w, D, i + 1)

\* q is the exact value of sum_i c[i] * w[i]
IsSum(q, c, w) ==
    IF AllFinite(w)
    THEN LET D == DenProduct(w, 1)
         IN  IsFinite(q) /\ q.num * D = q.den * ScaledSum(c, w, D, 1)
    ELSE q = NonFinite

RECURSIVE Factorial(_)
Factorial(n) == IF n <= 0 THEN 1 ELSE n * Factorial(n - 1)

RECURSIVE GeometricSum(_, _)
GeometricSum(z, terms) ==
    IF terms <= 0 THEN 0 ELSE Pow(z, terms - 1) + GeometricSum(z, terms - 1)

\* the number of terms of the kernel sum_t (x * y)^t a build uses: the
\* stencil length for the default kernel, 2 for the kernel 1 + x * y
KernelTerms(a, n) == IF a.kernel.given THEN 2 ELSE n

\* the m-th derivative in x, at x = 0, of sum_{t < terms} (x * y)^t
LkAtOrigin(y, m, terms) == IF m < terms THEN Factorial(m) * Pow(y, m) ELSE 0

\* C1: central(dx=1, order_derivative=1, order_method=2) with kernel=None and
\* the default noise variance returns the grid [-1, 0, 1] and the weights
\* [-1/2, 0, 1/2].
C1_CentralDefault ==
    (op = "central" /\ args = StencilArgs(1, 1, 2, KernelNone, _DEFAULT_NOISE_VARIANCE))
        => /\ ret.status = "ok"
           /\ ret.grid = <<-1, 0, 1>>
           /\ ret.scheme.weights = <<Frac(-1, 2), FracInt(0), Frac(1, 2)>>
           /\ ret.scheme.order_derivative = 1

C1_Witness ==
    /\ op = "central"
    /\ args = StencilArgs(1, 1, 2, KernelNone, _DEFAULT_NOISE_VARIANCE)
    /\ ret.status = "ok"
    /\ Len(ret.scheme.weights) = 3

\* C2: a scheme built by from_grid, forward, backward or central with
\* order_derivative >= 1 (and order_method >= 1) over a grid of n >= 1 points
\* has exactly n weights, and weights[j] belongs to grid[j]: in the order of
\* the returned grid the weights solve the collocation system of that grid,
\* sum_i k(grid[j], grid[i]) * weights[i] = Lk(0, grid[j]) for every j.
C2_WeightsAlignedWithGrid ==
    (/\ Built
     /\ args.order_derivative >= 1
     /\ op \in StencilOps => args.order_method >= 1)
        => LET w == ret.scheme.weights
               g == ret.grid
               n == Len(g)
               t == KernelTerms(args, n)
           IN  /\ n >= 1
               /\ Len(w) = n
               /\ op = "from_grid" => g = args.xs
               /\ AllFinite(w) =>
                    \A j \in 1..n :
                        IsSum(FracInt(LkAtOrigin(g[j], args.order_derivative, t)),
                              [i \in 1..n |-> GeometricSum(g[j] * g[i], t)], w)

C2_Witness ==
    /\ op = "backward"
    /\ ret.status = "ok"
    /\ args.order_derivative = 1
    /\ args.order_method = 2
    /\ ret.grid = <<0, -1, -2>>
    /\ ret.scheme.weights = <<Frac(3, 2), FracInt(-2), Frac(1, 2)>>

C4_CentralStencilLength ==
    (/\ op = "central"
     /\ ret.status = "ok"
     /\ args.order_derivative >= 1
     /\ args.order_method >= 1)
        => LET n == Len(ret.grid)
               s == (n - 1) \div 2
           IN  /\ n % 2 = 1
               /\ \A i \in 1..n : ret.grid[i] = (i - 1 - s) * args.dx
               /\ Abs(n - (args.order_derivative + args.order_method)) <= 1

\* C5: from_grid(xs, order_derivative=0) returns a scheme, built with the
\* identity operator: Lk and LLk are the kernel k itself.
C5_OrderZeroIsIdentity ==
    (op = "from_grid" /\ args.order_derivative = 0)
        => /\ ret.status = "ok"
           /\ LET n == Len(args.xs)
                  t == KernelTerms(args, n)
              IN  /\ ret.gram.LK = [j \in 1..n |-> GeometricSum(0 * args.xs[j], t)]
                  /\ ret.gram.LLK = GeometricSum(0 * 0, t)

\* C6: differentiate(fx, scheme) returns the dot product of scheme.weights
\* and fx as the estimate and scheme.covs_marginal, whatever fx is, as the
\* uncertainty; it leaves the scheme as it was.
C6_DifferentiateIsDotProduct ==
    /\ [](op = "differentiate"
            => /\ ret.status = "ok"
               /\ IsSum(ret.out.dfx, args.fx, scheme.weights)
               /\ ret.out.unc_base = scheme.covs_marginal)
    /\ [][op' = "differentiate" => scheme' = scheme]_vars

C6_Witness ==
    /\ op = "differentiate"
    /\ IsFinite(ret.out.dfx)
    /\ ret.out.dfx.num /= 0
    /\ IsFinite(scheme.covs_marginal)
    /\ scheme.covs_marginal.num /= 0
    /\ ret.out.unc_base = scheme.covs_marginal

\* C7: differentiate_along_axis on an array of shape (n, m) along axis 0,
\* with a scheme of n weights, returns m estimates, the j-th the dot product
\* of the weights with column j (along axis 1, on shape (m, n): with row j).
C7_AlongAxisPerSlice ==
    op = "differentiate_along_axis"
        => LET fx   == args.fx
               rows == fx.shape[1]
               cols == fx.shape[2]
           IN  /\ ret.status = "ok"
               /\ args.axis = 0 =>
                    /\ rows = Len(scheme.weights)
                    /\ Len(ret.out.dfx) = cols
                    /\ \A j \in 1..cols :
                         IsSum(ret.out.dfx[j],
                               [i \in 1..rows |-> fx.data[(i - 1) * cols + j]],
                               scheme.weights)
               /\ args.axis = 1 =>
                    /\ cols = Len(scheme.weights)
                    /\ Len(ret.out.dfx) = rows
                    /\ \A j \in 1..rows :
                         IsSum(ret.out.dfx[j],
                               [i \in 1..cols |-> fx.data[(j - 1) * cols + i]],
                               scheme.weights)

C7_Witness ==
    /\ op = "differentiate_along_axis"
    /\ args.axis = 0
    /\ args.fx.shape = <<3, 2>>
    /\ Len(ret.out.dfx) = 2
    /\ IsFinite(ret.out.dfx[1])
    /\ IsFinite(ret.out.dfx[2])
    /\ ret.out.dfx[1] /= ret.out.dfx[2]

\* C8: multivariate(scheme_1d, xs_1d, shape_input=(p,)) with an n-point
\* stencil returns a grid of shape (p, p, n), grid[i] holding the 1-d offsets
\* along axis i and zero along every other axis, and returns scheme_1d
\* unchanged.
C8_MultivariateGrid ==
    op = "multivariate"
        => LET p  == args.shape_input[1]
               n  == Len(args.xs_1d)
               xs == ret.out.xs
           IN  /\ ret.status = "ok"
               /\ Len(xs) = p
               /\ \A i \in 1..p :
                    /\ Len(xs[i]) = p
                    /\ \A j \in 1..p :
                         /\ Len(xs[i][j]) = n
                         /\ \A k \in 1..n :
                              xs[i][j][k] = (IF i = j THEN args.xs_1d[k] ELSE 0)
               /\ ret.out.scheme = args.scheme_1d
               /\ scheme = args.scheme_1d

C8_Witness ==
    /\ op = "multivariate"
    /\ args.shape_input = <<2>>
    /\ args.xs_1d = <<-1, 0, 1>>
    /\ ret.out.xs = << << <<-1, 0, 1>>, <<0, 0, 0>> >>, << <<0, 0, 0>>, <<-1, 0, 1>> >> >>
    /\ ret.out.scheme.weights = <<Frac(-1, 2), FracInt(0), Frac(1, 2)>>

\* C9: asking the scattered-data path for more neighbours than there are
\* points fails with an error; no coefficients and no neighbour indices
\* outside the point set are returned.
C9_TooManyNeighboursRejected ==
    (op \in {"derivative", "derivative_higher"} /\ args.num > Len(args.xs))
        => ret.status /= "ok"

\* C10: forward, backward and central reject order_method <= 0 with an
\* error; no scheme is returned.
C10_NonPositiveAccuracyRejected ==
    (op \in StencilOps /\ args.order_method <= 0) => ret.status /= "ok"

====
